---- MODULE Spec2Model ----
(***************************************************************************)
(* A model of three parts of lightwood:                                    *)
(*   - the tutorial LabelEncoder (prepare / encode / decode),              *)
(*   - the audio MFCCEncoder (prepare / encode / decode),                  *)
(*   - helpers.general.evaluate_accuracy and its scoring strategies.       *)
(* Each part has its own next-state relation and specification; the        *)
(* variables of the other parts stay at their initial values.              *)
(***************************************************************************)
EXTENDS Integers, Sequences, FiniteSets, TLC

VARIABLES
    l_is_prepared,   \* LabelEncoder.is_prepared
    l_output_size,   \* LabelEncoder.output_size
    label_dict,      \* LabelEncoder.label_dict  (attribute absent until prepare)
    ilabel_dict,     \* LabelEncoder.ilabel_dict (attribute absent until prepare)
    l_priming,       \* the column given to the last prepare
    l_prepares,      \* how many times prepare was called (saturating at MaxPrepares)
    l_last,          \* the last LabelEncoder call: operation, argument, outcome
    a_is_prepared,   \* MFCCEncoder.is_prepared
    a_output_size,   \* MFCCEncoder.output_size: <<>> is None, <<n>> is the integer n
    a_prepares,      \* how many times prepare was called (saturating at MaxPrepares)
    a_last,          \* the last MFCCEncoder call: operation, argument, outcome
    e_pc,            \* evaluate_accuracy: "idle" (not called yet), "array_loop", "done"
    e_call,          \* the arguments of the current or last call of evaluate_accuracy
    e_data,          \* predictions and ground truth of a call scored in one batch
    e_invoked,       \* the scoring strategies the call has invoked, in order
    e_kwargs,        \* the keyword arguments passed on to the strategy
    e_acc_f,         \* evaluate_array_accuracy: the metric chosen as acc_f
    e_i,             \* evaluate_array_accuracy: the loop index i
    e_accuracy,      \* evaluate_array_accuracy: the running sum accuracy
    e_truth_first,   \* per-row reference: the running sum of max(0, m(truth row, predicted row))
    e_score,         \* what the strategy returned (or that it raised)
    e_result         \* what evaluate_accuracy returned (or that it raised)

lvars == <<l_is_prepared, l_output_size, label_dict, ilabel_dict, l_priming,
           l_prepares, l_last>>
avars == <<a_is_prepared, a_output_size, a_prepares, a_last>>

evars == <<e_pc, e_call, e_data, e_invoked, e_kwargs, e_acc_f, e_i, e_accuracy,
           e_truth_first, e_score, e_result>>

vars == <<lvars, avars, evars>>

\* ------------------------------------------------------------------ bounds

\* Longest column (training column, encode batch, decode batch) of the label encoder.
MaxLen == 2
\* Longest column of audio resources given to the audio encoder.
MaxBatch == 2
\* The prepare counters stop counting here.
MaxPrepares == 2
\* Most rows of a frame given to evaluate_accuracy.
MaxRows == 2
\* Longest row (a sequence) of an array column scored row by row.
MaxRowLen == 3
\* Longest predicted row when the ground truth of an array column is scalar.
MaxHorizon == 2

\* ------------------------------------------------------------ small helpers

Range(s) == {s[i] : i \in 1..Len(s)}

Min(a, b) == IF a <= b THEN a ELSE b

\* All sequences over S of length lo..hi.
SeqsBetween(S, lo, hi) == UNION {[1..n -> S] : n \in lo..hi}

\* A Python dict is an insertion-ordered list of <<key, value>> items with
\* distinct keys.
DictKeys(d) == {d[i][1] : i \in 1..Len(d)}

DictGet(d, k, default) ==
    IF k \in DictKeys(d)
    THEN LET i == CHOOSE j \in 1..Len(d) : d[j][1] = k IN d[i][2]
    ELSE default

\* d[k] = v : an existing key keeps its place and takes the new value.
DictSet(d, k, v) ==
    IF k \in DictKeys(d)
    THEN [i \in 1..Len(d) |-> IF d[i][1] = k THEN <<k, v>> ELSE d[i]]
    ELSE Append(d, <<k, v>>)

RECURSIVE DictUpdate(_, _)
DictUpdate(d, items) ==
    IF items = <<>> THEN d
    ELSE DictUpdate(DictSet(d, Head(items)[1], Head(items)[2]), Tail(items))

\* An attribute that may not exist yet on the instance.
NoAttr == [defined |-> FALSE, items |-> <<>>]
Attr(d) == [defined |-> TRUE, items |-> d]

\* The outcome of a call: a returned value or a raised exception.
Returned(v) == [err |-> FALSE, val |-> v]
Raised == [err |-> TRUE, val |-> <<>>]

\* ------------------------------------------------------------ LabelEncoder

Cats == {"a", "b", "Unknown"}

\* pandas.Series.unique(): the distinct values in order of first appearance.
RECURSIVE Unique(_)
Unique(col) ==
    IF col = <<>> THEN <<>>
    ELSE LET init == SubSeq(col, 1, Len(col) - 1)
             last == col[Len(col)]
         IN  IF last \in Range(init) THEN Unique(init)
             ELSE Append(Unique(init), last)

\* The labels with the "+ 1" forgotten: the first category takes the reserved 0.
CategoryLabelsFromZero(categories) ==
    [i \in 1..Len(categories) |-> <<categories[i], i - 1>>]

\* {cat: idx + 1 for idx, cat in enumerate(categories)}  (idx counts from 0)
CategoryLabels(categories) ==
    [i \in 1..Len(categories) |-> <<categories[i], (i - 1) + 1>>]

\* self.label_dict = {"Unknown": 0}; self.label_dict.update({...})
PrepareLabelDict(categories) ==
    DictUpdate(<<<<"Unknown", 0>>>>, CategoryLabels(categories))

\* self.ilabel_dict = {idx: cat for cat, idx in self.label_dict.items()}
RECURSIVE PrepareILabelDict(_)
PrepareILabelDict(ld) ==
    IF ld = <<>> THEN <<>>
    ELSE LET init == SubSeq(ld, 1, Len(ld) - 1)
             last == ld[Len(ld)]
         IN  DictSet(PrepareILabelDict(init), last[2], last[1])

\* torch.Tensor(enc) stores float32; .int() converts back. Integers up to 2^24
\* are exact, above that the nearest even multiple is stored.
Float32Int(i) ==
    IF i <= 16777216 THEN i
    ELSE LET q == i \div 2 IN IF i % 2 = 0 THEN i
                              ELSE IF q % 2 = 0 THEN 2 * q ELSE 2 * (q + 1)

\* encode: [self.label_dict.get(x, 0) for x in column_data], then
\* torch.Tensor(enc).int().unsqueeze(1): one row of width 1 per input row.
\* (A pandas Series takes the other branch, column_data.apply(...).tolist(),
\* which does the same lookup row by row.) Reading self.label_dict raises
\* when the attribute does not exist, which happens only if there is a row
\* to look up.
LabelEncodeRows(ld, column_data) ==
    IF column_data # <<>> /\ ~ld.defined THEN Raised
    ELSE Returned([i \in 1..Len(column_data) |->
                     <<Float32Int(DictGet(ld.items, column_data[i], 0))>>])

\* decode: [self.ilabel_dict[i.item()] for i in encoded_data]; a missing key
\* (or a missing attribute) raises.
LabelDecodeRows(ild, encoded_data) ==
    IF encoded_data = <<>> THEN Returned(<<>>)
    ELSE IF ~ild.defined THEN Raised
    ELSE IF \E i \in 1..Len(encoded_data) :
                encoded_data[i][1] \notin DictKeys(ild.items) THEN Raised
    ELSE Returned([i \in 1..Len(encoded_data) |->
                     DictGet(ild.items, encoded_data[i][1], "")])

LabelInit ==
    /\ l_is_prepared = FALSE
    /\ l_output_size = 1
    /\ label_dict = NoAttr
    /\ ilabel_dict = NoAttr
    /\ l_priming = <<>>
    /\ l_prepares = 0
    /\ l_last = [op |-> "init", arg |-> <<>>, out |-> Returned(<<>>)]

LabelPrepare(priming_data) ==
    LET categories == Unique(priming_data)
        ld == PrepareLabelDict(categories)
    IN  /\ label_dict' = Attr(ld)
        /\ ilabel_dict' = Attr(PrepareILabelDict(ld))
        /\ l_is_prepared' = TRUE
        /\ l_priming' = priming_data
        /\ l_prepares' = Min(l_prepares + 1, MaxPrepares)
        /\ l_last' = [op |-> "prepare", arg |-> priming_data, out |-> Returned(<<>>)]
        /\ UNCHANGED l_output_size
        /\ UNCHANGED <<avars, evars>>

LabelEncode(column_data) ==
    /\ UNCHANGED <<avars, evars>>
    /\ l_last' = [op |-> "encode", arg |-> column_data,
                  out |-> LabelEncodeRows(label_dict, column_data)]
    /\ UNCHANGED <<l_is_prepared, l_output_size, label_dict, ilabel_dict, l_priming,
                   l_prepares>>

LabelDecode(encoded_data) ==
    /\ UNCHANGED <<avars, evars>>
    /\ l_last' = [op |-> "decode", arg |-> encoded_data,
                  out |-> LabelDecodeRows(ilabel_dict, encoded_data)]
    /\ UNCHANGED <<l_is_prepared, l_output_size, label_dict, ilabel_dict, l_priming,
                   l_prepares>>

Columns == SeqsBetween(Cats, 0, MaxLen)
\* Integer tensors of shape (n, 1) holding any index a dictionary can hold, and one more.
Tensors == SeqsBetween({<<i>> : i \in 0..(MaxLen + 1)}, 0, MaxLen)

LabelNext ==
    \/ \E c \in Columns : LabelPrepare(c)
    \/ \E c \in Columns : LabelEncode(c)
    \/ \E t \in Tensors : LabelDecode(t)

\* ------------------------------------------------------------- MFCCEncoder

NUM_TIME_BUCKETS == 100
N_MFCC_COEFFICIENTS == 20

\* What read_from_path_or_url(path, librosa.load) finds behind a path: a
\* resource that cannot be read (the call raises), or a waveform y of
\* num_samples samples.
Unreadable == [ok |-> FALSE, num_samples |-> 0]
Waveform(n) == [ok |-> TRUE, num_samples |-> n]
SampleCounts == {4000, 9900, 22050}
Resources == {Unreadable} \cup {Waveform(n) : n \in SampleCounts}

\* hop_length = int(num_samples / NUM_TIME_BUCKETS + 1)
HopLength(num_samples) == (num_samples \div NUM_TIME_BUCKETS) + 1

\* librosa.feature.mfcc(y, n_mfcc, hop_length): a centred short-time transform
\* gives 1 + num_samples // hop_length frames of n_mfcc coefficients each;
\* .reshape(-1) flattens them into one vector.
MfccFrames(num_samples) == 1 + (num_samples \div HopLength(num_samples))
MfccWidth(num_samples) == N_MFCC_COEFFICIENTS * MfccFrames(num_samples)

\* A row of the encoding: its width, and whether it is the zero placeholder.
ZeroRow(w) == [width |-> w, zeros |-> TRUE]
MfccRow(w) == [width |-> w, zeros |-> FALSE]

\* The loop of encode over column_data. An unreadable row appends
\* [0] * self.output_size, which raises (inside the except block) while
\* output_size is None.
RECURSIVE EncodedAudioArr(_, _)
EncodedAudioArr(output_size, column_data) ==
    IF column_data = <<>> THEN Returned(<<>>)
    ELSE LET init == EncodedAudioArr(output_size,
                                     SubSeq(column_data, 1, Len(column_data) - 1))
             path == column_data[Len(column_data)]
         IN  IF init.err THEN Raised
             ELSE IF ~path.ok
                  THEN IF output_size = <<>> THEN Raised
                       ELSE Returned(Append(init.val, ZeroRow(output_size[1])))
                  ELSE Returned(Append(init.val, MfccRow(MfccWidth(path.num_samples))))

\* torch.Tensor(encoded_audio_arr): rows of different lengths raise.
TorchTensor(arr) ==
    IF \E i, j \in 1..Len(arr) : arr[i].width # arr[j].width THEN Raised
    ELSE Returned(arr)

AudioEncodeRows(output_size, column_data) ==
    LET arr == EncodedAudioArr(output_size, column_data)
    IN  IF arr.err THEN Raised ELSE TorchTensor(arr.val)

\* BaseEncoder.__init__, which MFCCEncoder.__init__ calls.
BaseEncoderInit ==
    /\ a_is_prepared = FALSE
    /\ a_output_size = <<>>

AudioInit ==
    /\ BaseEncoderInit
    /\ a_prepares = 0
    /\ a_last = [op |-> "init", arg |-> <<>>, out |-> Returned(<<>>)]

\* prepare sets is_prepared first; priming_data[0] raises on an empty column.
AudioPrepare(priming_data) ==
    LET enc == IF priming_data = <<>> THEN Raised
               ELSE AudioEncodeRows(a_output_size, <<priming_data[1]>>)
    IN  /\ a_is_prepared' = TRUE
        /\ a_output_size' = IF enc.err THEN a_output_size ELSE <<enc.val[1].width>>
        /\ a_prepares' = Min(a_prepares + 1, MaxPrepares)
        /\ a_last' = [op |-> "prepare", arg |-> priming_data,
                      out |-> IF enc.err THEN Raised ELSE Returned(<<>>)]
        /\ UNCHANGED <<lvars, evars>>

AudioEncode(column_data) ==
    /\ a_last' = [op |-> "encode", arg |-> column_data,
                  out |-> AudioEncodeRows(a_output_size, column_data)]
    /\ UNCHANGED <<a_is_prepared, a_output_size, a_prepares>>
    /\ UNCHANGED <<lvars, evars>>

\* decode raises: the encoder is not bi-directional.
AudioDecode(encoded_data) ==
    /\ a_last' = [op |-> "decode", arg |-> encoded_data, out |-> Raised]
    /\ UNCHANGED <<a_is_prepared, a_output_size, a_prepares>>
    /\ UNCHANGED <<lvars, evars>>

AudioColumns == SeqsBetween(Resources, 0, MaxBatch)

AudioNext ==
    \/ \E c \in AudioColumns : AudioPrepare(c)
    \/ \E c \in AudioColumns : AudioEncode(c)
    \/ \E n \in 0..MaxBatch : AudioDecode([i \in 1..n |-> ZeroRow(0)])

\* ------------------------------------------------------- scores and metrics

Abs(x) == IF x < 0 THEN -x ELSE x

RECURSIVE GCD(_, _)
GCD(a, b) == IF b = 0 THEN a ELSE GCD(b, a % b)

RECURSIVE SumSeq(_)
SumSeq(s) == IF s = <<>> THEN 0 ELSE s[1] + SumSeq(Tail(s))

\* A score is the float n/d in lowest terms (d > 0), nan, or a raised exception.
Num(n, d) ==
    LET g == GCD(Abs(n), d)
    IN  [k |-> "num", n |-> n \div g, d |-> d \div g]
NaN == [k |-> "nan", n |-> 0, d |-> 1]
Err == [k |-> "err", n |-> 0, d |-> 1]

Plus(a, b) == Num(a.n * b.d + b.n * a.d, a.d * b.d)

\* Python's max(0, x): x if x > 0, else the first argument 0 (also for nan).
MaxZeroFirst(x) ==
    IF x.k = "err" THEN Err
    ELSE IF x.k = "num" /\ x.n > 0 THEN x ELSE Num(0, 1)

\* Python's max(x, 0): 0 if 0 > x, else the first argument x (also for nan).
MaxZeroSecond(x) ==
    IF x.k = "err" THEN Err
    ELSE IF x.k = "num" /\ x.n < 0 THEN Num(0, 1) ELSE x

\* sklearn.metrics.r2_score(y_true, y_pred) = 1 - SS_res / SS_tot, where
\* SS_tot is taken around the mean of y_true: with n samples,
\* n * SS_tot = n * sum(y^2) - sum(y)^2. Fewer than two samples give nan, no
\* sample raises; a constant y_true gives 1 for a perfect fit and 0 otherwise.
R2Score(y_true, y_pred) ==
    LET n == Len(y_true)
        ss_res == SumSeq([i \in 1..n |-> (y_true[i] - y_pred[i]) * (y_true[i] - y_pred[i])])
        den == n * SumSeq([i \in 1..n |-> y_true[i] * y_true[i]])
                 - SumSeq(y_true) * SumSeq(y_true)
    IN  IF n = 0 \/ Len(y_pred) # n THEN Err
        ELSE IF n < 2 THEN NaN
        ELSE IF den = 0 THEN (IF ss_res = 0 THEN Num(1, 1) ELSE Num(0, 1))
        ELSE Num(den - n * ss_res, den)

\* sklearn.metrics.balanced_accuracy_score(y_true, y_pred): the mean, over the
\* classes present in y_true, of the recall of the class.
RECURSIVE SumScores(_)
SumScores(s) == IF s = <<>> THEN Num(0, 1) ELSE Plus(s[1], SumScores(Tail(s)))

SetToSeq(S) == CHOOSE f \in [1..Cardinality(S) -> S] : Range(f) = S

BalancedAccuracyScore(y_true, y_pred) ==
    LET n == Len(y_true)
        classes == SetToSeq(Range(y_true))
        support(c) == Cardinality({i \in 1..n : y_true[i] = c})
        hits(c) == Cardinality({i \in 1..n : y_true[i] = c /\ y_pred[i] = c})
        recalls == [j \in 1..Len(classes) |-> Num(hits(classes[j]), support(classes[j]))]
        total == SumScores(recalls)
    IN  IF n = 0 \/ Len(y_pred) # n THEN Err
        ELSE Num(total.n, total.d * Len(classes))

\* sklearn.metrics.accuracy_score(y_true, y_pred): the fraction of exact matches.
AccuracyScore(y_true, y_pred) ==
    LET n == Len(y_true)
    IN  IF n = 0 \/ Len(y_pred) # n THEN Err
        ELSE Num(Cardinality({i \in 1..n : y_true[i] = y_pred[i]}), n)

\* sklearn.metrics.f1_score(y_true, y_pred, average='weighted') on label
\* indicator rows: per label F1 = 2tp / (2tp + fp + fn) (0 when undefined),
\* averaged with the label's support tp + fn as weight (0 when no support).
F1ScoreWeighted(y_true, y_pred) ==
    LET n == Len(y_true)
        m == IF n = 0 THEN 0 ELSE Len(y_true[1])
        tp(j) == Cardinality({i \in 1..n : y_true[i][j] = 1 /\ y_pred[i][j] = 1})
        fp(j) == Cardinality({i \in 1..n : y_true[i][j] = 0 /\ y_pred[i][j] = 1})
        fn(j) == Cardinality({i \in 1..n : y_true[i][j] = 1 /\ y_pred[i][j] = 0})
        f1(j) == IF 2 * tp(j) + fp(j) + fn(j) = 0 THEN Num(0, 1)
                 ELSE Num(2 * tp(j), 2 * tp(j) + fp(j) + fn(j))
        weighted == [j \in 1..m |-> Num((tp(j) + fn(j)) * f1(j).n, f1(j).d)]
        weights == SumSeq([j \in 1..m |-> tp(j) + fn(j)])
        total == SumScores(weighted)
    IN  IF n = 0 \/ Len(y_pred) # n THEN Err
        ELSE IF weights = 0 THEN Num(0, 1)
        ELSE Num(total.n, total.d * weights)

\* -------------------------------------------------------- evaluate_accuracy

\* Semantic types (lightwood.api.dtype); the last three stand for every type
\* the dispatch does not name.
Dtypes == {"integer", "float", "categorical", "tags", "array",
           "binary", "date", "short_text"}

\* Cell values of the frames, used as numbers and as class labels.
Vals == {0, 1}
Tags == {"x", "y"}

\* target_info.typing: a dict that may hold 'data_type_dist'.
Typings == { <<>>,
             << <<"data_type_dist", {"integer"}>> >>,
             << <<"data_type_dist", {"categorical", "integer"}>> >> }

\* The backend handle: None, or one that leads to the trained encoders.
Backends == {"None", "backend"}

NoData == [predictions |-> <<>>, truths |-> <<>>, ranges |-> <<>>, has_ranges |-> FALSE]

\* The if / elif chain on col_type.
EvaluatorFloatAsGeneric(col_type) ==
    IF col_type = "integer" THEN "evaluate_regression_accuracy"
    ELSE IF col_type = "categorical" THEN "evaluate_classification_accuracy"
    ELSE IF col_type = "tags" THEN "evaluate_multilabel_accuracy"
    ELSE IF col_type = "array" THEN "evaluate_array_accuracy"
    ELSE "evaluate_generic_accuracy"

Evaluator(col_type) ==
    IF col_type \in {"integer", "float"} THEN "evaluate_regression_accuracy"
    ELSE IF col_type = "categorical" THEN "evaluate_classification_accuracy"
    ELSE IF col_type = "tags" THEN "evaluate_multilabel_accuracy"
    ELSE IF col_type = "array" THEN "evaluate_array_accuracy"
    ELSE "evaluate_generic_accuracy"

\* kwargs['categorical'] = True if dtype.categorical in
\*     target_info.typing.get('data_type_dist', []) else False  (array only)
Kwargs(col_type, typing) ==
    IF col_type = "array"
    THEN << <<"categorical", "categorical" \in DictGet(typing, "data_type_dist", {})>> >>
    ELSE <<>>

\* return 0.00000001 if score == 0 else score   (nan == 0 is False)
ReturnScoreUnchanged(score) == score

ReturnScore(score) ==
    IF score.k = "num" /\ score.n = 0 THEN Num(1, 100000000) ELSE score

\* evaluate_regression_accuracy: with '{column}_confidence_range' among the
\* predictions, the fraction of truths inside their range (no row: division
\* by zero); otherwise max(r2, 0).
EvaluateRegressionAccuracy(data) ==
    IF data.has_ranges
    THEN LET n == Len(data.truths)
             within == {i \in 1..n : /\ data.truths[i] >= data.ranges[i][1]
                                     /\ data.truths[i] <= data.ranges[i][2]}
         IN  IF n = 0 THEN Err ELSE Num(Cardinality(within), n)
    ELSE MaxZeroSecond(R2Score(data.truths, data.predictions))

EvaluateClassificationAccuracy(data) ==
    BalancedAccuracyScore(data.truths, data.predictions)

\* The trained multilabel encoder's encode: one indicator per known tag.
MultiHotEncode(rows) ==
    [i \in 1..Len(rows) |-> << IF "x" \in rows[i] THEN 1 ELSE 0,
                               IF "y" \in rows[i] THEN 1 ELSE 0 >>]

\* A missing backend scored as if nothing matched instead of raising.
EvaluateMultilabelNoBackendAsZero(backend, data) ==
    IF backend = "None" THEN Num(0, 1)
    ELSE F1ScoreWeighted(MultiHotEncode(data.truths), MultiHotEncode(data.predictions))

\* evaluate_multilabel_accuracy: backend.predictor._mixer.encoders[column]
\* raises when backend is None.
EvaluateMultilabelAccuracy(backend, data) ==
    IF backend = "None" THEN Err
    ELSE F1ScoreWeighted(MultiHotEncode(data.truths), MultiHotEncode(data.predictions))

EvaluateGenericAccuracy(data) ==
    AccuracyScore(data.truths, data.predictions)

\* acc_f = balanced_accuracy_score if kwargs['categorical'] else r2_score
AccF(kwargs) ==
    IF DictGet(kwargs, "categorical", FALSE) THEN "balanced_accuracy_score" ELSE "r2_score"

Metric(acc_f, y_true, y_pred) ==
    IF acc_f = "balanced_accuracy_score" THEN BalancedAccuracyScore(y_true, y_pred)
    ELSE R2Score(y_true, y_pred)

\* [x[-1] for x in predictions]: the last step instead of the first.
FirstStepsTakesLast(predictions) ==
    [i \in 1..Len(predictions) |-> predictions[i][Len(predictions[i])]]

\* [x[0] for x in predictions]
FirstSteps(predictions) == [i \in 1..Len(predictions) |-> Head(predictions[i])]

\* "For the T+1 usecase": max(0, acc_f([x[0] for x in predictions], true_values))
ScalarFallback(acc_f, predictions, true_values) ==
    MaxZeroFirst(Metric(acc_f, FirstSteps(predictions), true_values))

\* accuracy += max(0, acc_f(predictions[i], true_values[i]))
RowScore(acc_f, prediction, true_value) ==
    MaxZeroFirst(Metric(acc_f, prediction, true_value))

EvalInit ==
    /\ e_pc = "idle"
    /\ e_call = [col_type |-> "none", backend |-> "None", typing |-> <<>>, n |-> 0,
                 truths |-> "none"]
    /\ e_data = NoData
    /\ e_invoked = <<>>
    /\ e_kwargs = <<>>
    /\ e_acc_f = "none"
    /\ e_i = 0
    /\ e_accuracy = Num(0, 1)
    /\ e_truth_first = Num(0, 1)
    /\ e_score = NaN
    /\ e_result = NaN

\* A call of evaluate_accuracy on a column that is not an array: the dispatch,
\* the strategy's score and the return.
Evaluate(col_type, backend, typing, data) ==
    LET evaluator == Evaluator(col_type)
        score == CASE evaluator = "evaluate_regression_accuracy" ->
                          EvaluateRegressionAccuracy(data)
                   [] evaluator = "evaluate_classification_accuracy" ->
                          EvaluateClassificationAccuracy(data)
                   [] evaluator = "evaluate_multilabel_accuracy" ->
                          EvaluateMultilabelAccuracy(backend, data)
                   [] OTHER -> EvaluateGenericAccuracy(data)
    IN  /\ e_pc = "idle"
        /\ evaluator # "evaluate_array_accuracy"
        /\ e_call' = [col_type |-> col_type, backend |-> backend, typing |-> typing,
                      n |-> Len(data.truths), truths |-> "none"]
        /\ e_data' = data
        /\ e_invoked' = <<evaluator>>
        /\ e_kwargs' = Kwargs(col_type, typing)
        /\ e_score' = score
        /\ e_result' = IF score.k = "err" THEN Err ELSE ReturnScore(score)
        /\ e_acc_f' = "none"
        /\ e_i' = 0
        /\ e_accuracy' = Num(0, 1)
        /\ e_truth_first' = Num(0, 1)
        /\ e_pc' = "done"
        /\ UNCHANGED <<lvars, avars>>

\* A call on an array column of n rows whose first ground-truth row is a
\* sequence (or that has no row): the dispatch, then evaluate_array_accuracy
\* up to the head of its loop.
EvaluateArrayEnter(col_type, backend, typing, n) ==
    /\ e_pc = "idle"
    /\ Evaluator(col_type) = "evaluate_array_accuracy"
    /\ e_call' = [col_type |-> col_type, backend |-> backend, typing |-> typing,
                  n |-> n, truths |-> "sequences"]
    /\ e_data' = NoData
    /\ e_invoked' = <<Evaluator(col_type)>>
    /\ e_kwargs' = Kwargs(col_type, typing)
    /\ e_acc_f' = AccF(Kwargs(col_type, typing))
    /\ e_i' = 0
    /\ e_accuracy' = Num(0, 1)
    /\ e_truth_first' = Num(0, 1)
    /\ e_score' = NaN
    /\ e_result' = NaN
    /\ e_pc' = "array_loop"
    /\ UNCHANGED <<lvars, avars>>

\* One turn of the loop on a ground-truth row that is a list.
EvaluateArrayRow(prediction, true_value) ==
    LET row == RowScore(e_acc_f, prediction, true_value)
    IN  /\ e_pc = "array_loop"
        /\ e_i < e_call.n
        /\ e_i' = e_i + 1
        /\ e_accuracy' = Plus(e_accuracy, row)
        /\ e_truth_first' = Plus(e_truth_first,
                                 MaxZeroFirst(Metric(e_acc_f, true_value, prediction)))
        /\ UNCHANGED <<e_pc, e_call, e_data, e_invoked, e_kwargs, e_acc_f, e_score,
                       e_result>>
        /\ UNCHANGED <<lvars, avars>>

\* One turn of the loop, after at least one list row, on a ground-truth row
\* that is a scalar: acc_f is given a true_values list mixing lists and
\* scalars, and raises.
EvaluateArrayMixedRow ==
    /\ e_pc = "array_loop"
    /\ 0 < e_i /\ e_i < e_call.n
    /\ e_call' = [e_call EXCEPT !.truths = "mixed"]
    /\ e_score' = Err
    /\ e_result' = Err
    /\ e_pc' = "done"
    /\ UNCHANGED <<e_data, e_invoked, e_kwargs, e_acc_f, e_i, e_accuracy,
                   e_truth_first>>
    /\ UNCHANGED <<lvars, avars>>

\* The loop is over: return accuracy / len(predictions), then the return of
\* evaluate_accuracy.
EvaluateArrayReturn ==
    LET score == IF e_call.n = 0 THEN Err
                 ELSE Num(e_accuracy.n, e_accuracy.d * e_call.n)
    IN  /\ e_pc = "array_loop"
        /\ e_i = e_call.n
        /\ e_score' = score
        /\ e_result' = IF score.k = "err" THEN Err ELSE ReturnScore(score)
        /\ e_pc' = "done"
        /\ UNCHANGED <<e_call, e_data, e_invoked, e_kwargs, e_acc_f, e_i, e_accuracy,
                       e_truth_first>>
        /\ UNCHANGED <<lvars, avars>>

\* A call on an array column whose ground-truth rows are scalars: the loop
\* returns from its first turn with the fallback score.
EvaluateArrayScalar(col_type, backend, typing, data) ==
    LET kwargs == Kwargs(col_type, typing)
        score == ScalarFallback(AccF(kwargs), data.predictions, data.truths)
    IN  /\ e_pc = "idle"
        /\ Evaluator(col_type) = "evaluate_array_accuracy"
        /\ e_call' = [col_type |-> col_type, backend |-> backend, typing |-> typing,
                      n |-> Len(data.predictions), truths |-> "scalars"]
        /\ e_data' = data
        /\ e_invoked' = <<Evaluator(col_type)>>
        /\ e_kwargs' = kwargs
        /\ e_acc_f' = AccF(kwargs)
        /\ e_i' = 0
        /\ e_accuracy' = Num(0, 1)
        /\ e_truth_first' = Num(0, 1)
        /\ e_score' = score
        /\ e_result' = IF score.k = "err" THEN Err ELSE ReturnScore(score)
        /\ e_pc' = "done"
        /\ UNCHANGED <<lvars, avars>>

\* The frames a call is given. Scalar columns: predictions and truths of the
\* same 1..MaxRows rows (also none, for the regression strategy), with or
\* without a confidence range per row.
ScalarFrames(lo) ==
    UNION {
        {[predictions |-> p, truths |-> t, ranges |-> <<>>, has_ranges |-> FALSE] :
            p \in [1..n -> Vals], t \in [1..n -> Vals]}
        \cup
        {[predictions |-> p, truths |-> t, ranges |-> r, has_ranges |-> TRUE] :
            p \in [1..n -> Vals], t \in [1..n -> Vals], r \in [1..n -> Vals \X Vals]}
        : n \in lo..MaxRows }

TagFrames ==
    UNION {
        {[predictions |-> p, truths |-> t, ranges |-> <<>>, has_ranges |-> FALSE] :
            p \in [1..n -> SUBSET Tags], t \in [1..n -> SUBSET Tags]}
        : n \in 1..MaxRows }

\* Array predictions of one horizon h for all rows, against scalar truths.
HorizonFrames ==
    UNION {
        {[predictions |-> p, truths |-> t, ranges |-> <<>>, has_ranges |-> FALSE] :
            p \in [1..n -> [1..h -> Vals]], t \in [1..n -> Vals]}
        : n \in 1..MaxRows, h \in 1..MaxHorizon }

FramesFor(col_type) ==
    IF col_type \in {"integer", "float"} THEN ScalarFrames(0)
    ELSE IF col_type = "tags" THEN TagFrames
    ELSE {f \in ScalarFrames(1) : ~f.has_ranges}

EvalNext ==
    \/ /\ e_pc = "idle"
       /\ \E t \in Dtypes, b \in Backends, ty \in Typings :
             \E data \in FramesFor(t) : Evaluate(t, b, ty, data)
    \/ /\ e_pc = "idle"
       /\ \E t \in Dtypes, b \in Backends, ty \in Typings, n \in 0..MaxRows :
             EvaluateArrayEnter(t, b, ty, n)
    \/ /\ e_pc = "array_loop"
       /\ \E len \in 1..MaxRowLen :
             \E p \in [1..len -> Vals], t \in [1..len -> Vals] : EvaluateArrayRow(p, t)
    \/ EvaluateArrayMixedRow
    \/ EvaluateArrayReturn
    \/ /\ e_pc = "idle"
       /\ \E t \in Dtypes, b \in Backends, ty \in Typings :
             \E data \in HorizonFrames : EvaluateArrayScalar(t, b, ty, data)

Init == LabelInit /\ AudioInit /\ EvalInit

SpecLabel == Init /\ [][LabelNext]_vars

SpecAudio == Init /\ [][AudioNext]_vars

SpecEval == Init /\ [][EvalNext]_vars

\* ------------------------------------------------------------------ claims

\* C1: after prepare, decode(encode([x])) = [x] for every x of the training
\* column, and every y not in the training column encodes to index 0, which
\* decodes to "Unknown" -- for every training column, also one holding
\* "Unknown".
C1_RoundTripAndUnknown ==
    l_is_prepared =>
        /\ \A x \in Range(l_priming) :
              LET e == LabelEncodeRows(label_dict, <<x>>)
              IN  /\ ~e.err
                  /\ LabelDecodeRows(ilabel_dict, e.val) = Returned(<<x>>)
        /\ \A y \in Cats \ Range(l_priming) :
              /\ LabelEncodeRows(label_dict, <<y>>) = Returned(<< <<0>> >>)
              /\ LabelDecodeRows(ilabel_dict, << <<0>> >>) = Returned(<<"Unknown">>)

\* C4: audio encode on an unreadable resource never raises, also in the call
\* prepare makes on the first training element: each unreadable row yields a
\* zero vector of length output_size and the output has one row per input row.
C4_UnreadableNeverRaises ==
    /\ (a_last.op = "prepare" /\ a_last.arg # <<>>) => ~a_last.out.err
    /\ (a_last.op = "encode" /\ a_is_prepared) =>
          /\ ~a_last.out.err
          /\ Len(a_last.out.val) = Len(a_last.arg)
          /\ \A i \in 1..Len(a_last.arg) :
                ~a_last.arg[i].ok => a_last.out.val[i] = ZeroRow(a_output_size[1])

\* C5: after prepare, every row of every encode output has width output_size;
\* for the audio encoder that width is segments x coefficients whatever the
\* number of samples; for the label encoder it is 1.
C5_ConstantWidth ==
    /\ a_output_size # <<>> =>
          a_output_size[1] = NUM_TIME_BUCKETS * N_MFCC_COEFFICIENTS
    /\ (a_last.op = "encode" /\ a_output_size # <<>> /\ ~a_last.out.err) =>
          \A i \in 1..Len(a_last.out.val) :
              a_last.out.val[i].width = a_output_size[1]
    /\ (l_last.op = "encode" /\ l_is_prepared /\ ~l_last.out.err) =>
          \A i \in 1..Len(l_last.out.val) : Len(l_last.out.val[i]) = l_output_size

\* C6: after any sequence of prepare calls the label dictionary is a
\* bijection: no two distinct categories share a non-zero index, no category
\* of the training column has index 0, and ilabel_dict is exactly the inverse
\* of label_dict.
C6_LabelDictBijection ==
    l_is_prepared =>
        LET ld == label_dict.items
            ild == ilabel_dict.items
        IN  /\ label_dict.defined /\ ilabel_dict.defined
            /\ \A i, j \in 1..Len(ld) :
                  (i # j /\ ld[i][2] # 0) => ld[i][2] # ld[j][2]
            /\ \A c \in Range(l_priming) :
                  c \in DictKeys(ld) /\ DictGet(ld, c, 0) # 0
            /\ Cardinality(DictKeys(ild)) = Len(ild)
            /\ Range(ild) = {<<ld[i][2], ld[i][1]>> : i \in 1..Len(ld)}
            /\ Len(ild) = Len(ld)

\* C6 witness: prepare ran twice, last on a column of two categories, one of
\* them "Unknown".
C6_Witness ==
    /\ l_prepares = 2
    /\ "Unknown" \in Range(l_priming)
    /\ Len(label_dict.items) = 2

\* C7: prepare runs exactly once before any encode or decode returns a
\* result, and a call made while is_prepared is False fails with an error
\* (stated for calls on at least one row).
C7_PrepareEnforced ==
    /\ (a_last.op \in {"encode", "decode"} /\ a_last.arg # <<>> /\ ~a_last.out.err) =>
          a_is_prepared /\ a_prepares = 1
    /\ (l_last.op \in {"encode", "decode"} /\ l_last.arg # <<>> /\ ~l_last.out.err) =>
          l_is_prepared /\ l_prepares = 1

\* C2: evaluate_accuracy never returns exactly 0.0: a strategy's value 0
\* comes back as 1e-8, any other value unchanged.
C2_NeverZero ==
    (e_pc = "done" /\ e_score.k # "err") =>
        /\ e_result # Num(0, 1)
        /\ (e_score.k = "num" /\ e_score.n = 0) => e_result = Num(1, 100000000)
        /\ ~(e_score.k = "num" /\ e_score.n = 0) => e_result = e_score

\* C2 witness: a strategy returned 0 and the call returned 1e-8.
C2_Witness ==
    /\ e_pc = "done"
    /\ e_score = Num(0, 1)
    /\ e_result = Num(1, 100000000)

\* C3: every call invokes exactly one strategy, fixed by the semantic type
\* alone: integer, float -> regression; categorical -> classification;
\* tags -> multilabel; array -> array; anything else -> generic.
C3_OneStrategyByType ==
    e_pc # "idle" =>
        /\ Len(e_invoked) = 1
        /\ e_call.col_type \in {"integer", "float"} =>
              e_invoked[1] = "evaluate_regression_accuracy"
        /\ e_call.col_type = "categorical" =>
              e_invoked[1] = "evaluate_classification_accuracy"
        /\ e_call.col_type = "tags" => e_invoked[1] = "evaluate_multilabel_accuracy"
        /\ e_call.col_type = "array" => e_invoked[1] = "evaluate_array_accuracy"
        /\ e_call.col_type \notin {"integer", "float", "categorical", "tags", "array"} =>
              e_invoked[1] = "evaluate_generic_accuracy"

\* C3 witness: a finished call on a float column, given a backend and a
\* data-type distribution it has no use for, was scored as a regression.
C3_Witness ==
    /\ e_pc = "done"
    /\ e_call.col_type = "float"
    /\ e_call.backend = "backend"
    /\ e_call.typing # <<>>
    /\ e_invoked = <<"evaluate_regression_accuracy">>
    /\ e_result.k = "num"

\* C8 as stated: the call fails with an error when tags are scored without a
\* backend, and when an array is scored with typing metadata that lacks the
\* data-type distribution.
C8_MissingDependencyFails ==
    e_pc = "done" =>
        /\ (e_call.col_type = "tags" /\ e_call.backend = "None") => e_result = Err
        /\ (e_call.col_type = "array" /\ "data_type_dist" \notin DictKeys(e_call.typing)) =>
              e_result = Err

\* C8 as amended: tags scored without a backend fail with an error and return
\* no score; an array scored without the data-type distribution is not
\* refused: the array strategy runs with categorical = False, that is with R2
\* as its metric.
C8_MissingBackendFailsMissingDistDefaults ==
    /\ (e_pc = "done" /\ e_call.col_type = "tags" /\ e_call.backend = "None") =>
          e_score = Err /\ e_result = Err
    /\ (e_pc # "idle" /\ e_call.col_type = "array"
          /\ "data_type_dist" \notin DictKeys(e_call.typing)) =>
          /\ e_invoked = <<"evaluate_array_accuracy">>
          /\ e_kwargs = << <<"categorical", FALSE>> >>
          /\ e_acc_f = "r2_score"

\* C8 witness: an array column scored without the data-type distribution
\* came back with a score.
C8_Witness ==
    /\ e_pc = "done"
    /\ e_call.col_type = "array"
    /\ e_call.typing = <<>>
    /\ e_acc_f = "r2_score"
    /\ e_result.k = "num"
    /\ e_result.n > 0

\* C9: with scalar ground-truth rows the array score is
\* max(0, metric(first element of every prediction row, all truths)),
\* whatever the other elements of the prediction rows are.
C9_ScalarTruthsScoreFirstStep ==
    (e_pc = "done" /\ e_call.truths = "scalars") =>
        LET firsts == [i \in 1..Len(e_data.predictions) |-> e_data.predictions[i][1]]
            categorical == "categorical" \in DictGet(e_call.typing, "data_type_dist", {})
            value == IF categorical THEN BalancedAccuracyScore(firsts, e_data.truths)
                     ELSE R2Score(firsts, e_data.truths)
        IN  e_score = (IF value.k = "num" /\ value.n > 0 THEN value ELSE Num(0, 1))

\* C9 witness: two rows of two-step predictions whose later steps differ
\* from their first steps, scalar truths, and a positive score.
C9_Witness ==
    /\ e_pc = "done"
    /\ e_call.truths = "scalars"
    /\ Len(e_data.predictions) = 2
    /\ \A i \in 1..2 : /\ Len(e_data.predictions[i]) = 2
                       /\ e_data.predictions[i][1] # e_data.predictions[i][2]
    /\ e_score.k = "num" /\ e_score.n > 0

\* C10: with ground-truth rows that are sequences the array score is the
\* average over the rows of max(0, m(y_true = truth row, y_pred = predicted
\* row)), m being balanced accuracy for a categorical column and R2 otherwise.
C10_AverageWithTruthAsReference ==
    (e_pc = "done" /\ e_call.truths = "sequences" /\ e_score.k = "num") =>
        e_score = Num(e_truth_first.n, e_truth_first.d * e_call.n)

====
